---- MODULE Spec2Model ----
(***************************************************************************)
(* A model of package xlog (github.com/xfxdev/xlog): the Logger, its       *)
(* layout compiler (SetLayout), the token formatters (Layouter.layout)     *)
(* and the fan-out of Log to the registered listeners, with the Logger's   *)
(* mutex and the goroutines that call it.                                  *)
(*                                                                         *)
(* Strings and byte slices are sequences of one-character strings.         *)
(* The model follows the revision of xlog.go that the tests and            *)
(* xlayouter.go compile against (New(lev, lis, layout), Level2Str,         *)
(* needCallerInfo): src/unnamed/part_000.                                  *)
(***************************************************************************)
EXTENDS Integers, Sequences, FiniteSets, TLC

VARIABLES
    mu,              \* Logger.mu: "free" or the goroutine holding it
    lev,             \* Logger.lev
    lis,             \* Logger.lis
    layouters,       \* Logger.layouters
    buf,             \* Logger.buf
    needCallerInfo,  \* Logger.needCallerInfo
    pc,              \* each goroutine's position
    call,            \* each goroutine's current call: arguments, locals, result
    status,          \* the process: "running", "panicked" or "exited"
    installed        \* history: the pattern of the last SetLayout that returned

vars == <<mu, lev, lis, layouters, buf, needCallerInfo, pc, call, status, installed>>

-----------------------------------------------------------------------------
(* Levels *)

PanicLevel == 0
FatalLevel == 1
ErrorLevel == 2
WarnLevel == 3
InfoLevel == 4
DebugLevel == 5

Levels == PanicLevel .. DebugLevel

Level2Str ==
    <<  <<"P", "A", "N", "I", "C">>,
        <<"F", "A", "T", "A", "L">>,
        <<"E", "R", "R", "O", "R">>,
        <<"W", "A", "R", "N">>,
        <<"I", "N", "F", "O">>,
        <<"D", "E", "B", "U", "G">> >>

DefaultLoggerLayout == <<"%", "L", " ", "%", "D", " ", "%", "T", " ", "%", "l">>

-----------------------------------------------------------------------------
(* Layouters *)

Nil == [kind |-> "nil", placeholder |-> <<>>]

Token(k) == [kind |-> k, placeholder |-> <<>>]

layouterPlaceholder(s) == [kind |-> "placeholder", placeholder |-> s]

\* The table of the recognized two-character keys; Nil for any other key.
mapLayouter(f) ==
    IF Len(f) # 2 \/ f[1] # "%" THEN Nil
    ELSE CASE f[2] = "y" -> Token("year")
           [] f[2] = "M" -> Token("month")
           [] f[2] = "d" -> Token("day")
           [] f[2] = "h" -> Token("hour")
           [] f[2] = "m" -> Token("minute")
           [] f[2] = "s" -> Token("second")
           [] f[2] = "l" -> Token("msg")
           [] f[2] = "L" -> Token("level")
           [] f[2] = "F" -> Token("file")
           [] f[2] = "f" -> Token("shortfile")
           [] f[2] = "i" -> Token("line")
           [] f[2] = "D" -> Token("date")
           [] f[2] = "T" -> Token("time")
           [] OTHER -> Nil

Digits == <<"0", "1", "2", "3", "4", "5", "6", "7", "8", "9">>

\* byte('0' + n) for 0 <= n <= 9
Digit(n) == Digits[n + 1]

RECURSIVE itoaLoop(_, _, _)
itoaLoop(i, wid, b) ==
    IF i >= 10 \/ wid > 1
    THEN itoaLoop(i \div 10, wid - 1, <<Digit(i - (i \div 10) * 10)>> \o b)
    ELSE <<Digit(i)>> \o b

\* An itoa that never pads.
itoaUnpadded(b, i, wid) == b \o itoaLoop(i, -1, <<>>)

\* itoa appends i in decimal, zero-padded to wid digits, to b.
itoa(b, i, wid) == b \o itoaLoop(i, wid, <<>>)

\* The largest 1-based index i > 1 with file[i] = "/", or 0: the loop
\* `for i := len(file) - 1; i > 0; i--` never looks at the first byte.
RECURSIVE lastSlash(_, _)
lastSlash(file, i) ==
    IF i <= 1 THEN 0
    ELSE IF file[i] = "/" THEN i
    ELSE lastSlash(file, i - 1)

shortFile(file) ==
    LET i == lastSlash(file, Len(file))
    IN  IF i = 0 THEN file ELSE SubSeq(file, i + 1, Len(file))

\* A date whose month and day are not padded.
layoutDateUnpadded(b, t) ==
    itoa(itoa(itoa(b, t.year, 4) \o <<"/">>, t.month, -1) \o <<"/">>, t.day, -1)

\* layouterDate.layout: itoa(year, 4), '/', itoa(month, 2), '/', itoa(day, 2)
layoutDate(b, t) ==
    itoa(itoa(itoa(b, t.year, 4) \o <<"/">>, t.month, 2) \o <<"/">>, t.day, 2)

\* layouterTime.layout: itoa(hour, 2), ':', itoa(min, 2), ':', itoa(sec, 2)
layoutTime(b, t) ==
    itoa(itoa(itoa(b, t.hour, 2) \o <<":">>, t.minute, 2) \o <<":">>, t.second, 2)

\* Layouter.layout: what the layouter l appends to b.
layout(l, b, level, msg, t, file, line) ==
    CASE l.kind = "year"   -> itoa(b, t.year, 4)
      [] l.kind = "month"  -> itoa(b, t.month, 2)
      [] l.kind = "day"    -> itoa(b, t.day, 2)
      [] l.kind = "hour"   -> itoa(b, t.hour, 2)
      [] l.kind = "minute" -> itoa(b, t.minute, 2)
      [] l.kind = "second" -> itoa(b, t.second, 2)
      [] l.kind = "msg"    -> b \o msg
      [] l.kind = "level"  -> (b \o <<"[">>) \o Level2Str[level + 1] \o <<"]">>
      [] l.kind = "file"   -> b \o file
      [] l.kind = "shortfile" -> b \o shortFile(file)
      [] l.kind = "line"   -> itoa(b, line, -1)
      [] l.kind = "date"   -> layoutDate(b, t)
      [] l.kind = "time"   -> layoutTime(b, t)
      [] l.kind = "placeholder" -> b \o l.placeholder

-----------------------------------------------------------------------------
(* Small helpers on sequences *)

\* strings.IndexByte, 1-based; 0 when c does not occur in s (Go: -1).
IndexByte(s, c) ==
    IF \E i \in 1 .. Len(s) : s[i] = c
    THEN CHOOSE i \in 1 .. Len(s) : s[i] = c /\ \A j \in 1 .. (i - 1) : s[j] # c
    ELSE 0

Range(s) == {s[i] : i \in 1 .. Len(s)}

\* The index of the first element of l equal to s, 0 if none
\* (`for i, li := range l.lis { if li == lis`).
IndexOf(l, s) == IndexByte(l, s)

-----------------------------------------------------------------------------
(* ParseLevel *)

UpperLetters ==
    <<"A", "B", "C", "D", "E", "F", "G", "H", "I", "J", "K", "L", "M",
      "N", "O", "P", "Q", "R", "S", "T", "U", "V", "W", "X", "Y", "Z">>

LowerLetters ==
    <<"a", "b", "c", "d", "e", "f", "g", "h", "i", "j", "k", "l", "m",
      "n", "o", "p", "q", "r", "s", "t", "u", "v", "w", "x", "y", "z">>

ToUpper(str) ==
    [i \in 1 .. Len(str) |->
        IF IndexByte(LowerLetters, str[i]) # 0
        THEN UpperLetters[IndexByte(LowerLetters, str[i])]
        ELSE str[i]]

\* A ParseLevel that does not mind the case of the letters.
ParseLevelFold(str) ==
    LET i == IndexOf(Level2Str, ToUpper(str))
    IN  IF i # 0 THEN [level |-> i - 1, ok |-> TRUE]
        ELSE [level |-> InfoLevel, ok |-> FALSE]

\* `for i, v := range Level2Str { if v == str { return Level(i), true } }`
\* and `return InfoLevel, false`
ParseLevel(str) ==
    LET i == IndexOf(Level2Str, str)
    IN  IF i # 0 THEN [level |-> i - 1, ok |-> TRUE]
        ELSE [level |-> InfoLevel, ok |-> FALSE]

-----------------------------------------------------------------------------
(* Logger.SetLayout *)

\* A SetLayout that does not clear: the new units extend the old program.
keepLayouters(old) == old

\* `l.layouters = nil`: what the loop starts appending to.
clearLayouters(old) == <<>>

\* A SetLayout that drops the text after the last escape.
dropTail(ls, rest) == ls

\* `if len(layout) > 0 { append the rest as a placeholder }`
appendTail(ls, rest) ==
    IF Len(rest) > 0 THEN Append(ls, layouterPlaceholder(rest)) ELSE ls

\* An unknown escape that keeps only the character after the '%'.
dropPercent(ls, f) == Append(ls, layouterPlaceholder(<<f[2]>>))

\* `l.layouters = append(l.layouters, &layouterPlaceholder{placeholder: f})`
\* for a key f that is not in mapLayouter.
appendUnknown(ls, f) == Append(ls, layouterPlaceholder(f))

\* The loop of SetLayout over what is left of the pattern.  A slice
\* expression layout[i : i+2] whose end is past len(layout) is a run-time
\* panic: panicked is TRUE and ls is what had been appended by then.
RECURSIVE setLayoutLoop(_, _, _)
setLayoutLoop(rest, ls, need) ==
    LET i == IndexByte(rest, "%")
    IN  IF i # 0
        THEN LET ls1 == IF i # 1
                        THEN Append(ls, layouterPlaceholder(SubSeq(rest, 1, i - 1)))
                        ELSE ls
             IN  IF i + 1 > Len(rest)
                 THEN [layouters |-> ls1, needCallerInfo |-> need, panicked |-> TRUE]
                 ELSE LET f == SubSeq(rest, i, i + 1)
                          layouter == mapLayouter(f)
                          ls2 == IF layouter # Nil
                                 THEN Append(ls1, layouter)
                                 ELSE appendUnknown(ls1, f)
                          need2 == IF layouter # Nil
                                      /\ layouter.kind \in {"file", "shortfile", "line"}
                                   THEN TRUE
                                   ELSE need
                      IN  IF i + 1 > Len(rest)
                          THEN [layouters |-> ls2, needCallerInfo |-> need2,
                                panicked |-> FALSE]
                          ELSE setLayoutLoop(SubSeq(rest, i + 2, Len(rest)), ls2, need2)
        ELSE [layouters |-> appendTail(ls, rest), needCallerInfo |-> need,
              panicked |-> FALSE]

\* A SetLayout that compiles the empty pattern as it is given.
asGiven(pattern) == pattern

\* `if len(layout) == 0 { layout = DefaultLoggerLayout }`
defaultIfEmpty(pattern) == IF Len(pattern) = 0 THEN DefaultLoggerLayout ELSE pattern

\* SetLayout's effect on (layouters, needCallerInfo) for the argument
\* pattern, from the old program and the old flag.
setLayout(pattern, old, need) ==
    LET lay == defaultIfEmpty(pattern)
    IN  setLayoutLoop(lay, clearLayouters(old), need)

-----------------------------------------------------------------------------
(* Logger.SetLevel *)

\* A guard that lets SetLevel only raise the threshold.
levelRaised(lev_, old) == lev_ > old

\* `if lev != l.lev`
levelChanged(lev_, old) == lev_ # old

-----------------------------------------------------------------------------
(* Logger.AddListener, Logger.RemoveListener *)

\* A removal that moves the last sink into the hole:
\* l.lis[i] = l.lis[len-1]; l.lis = l.lis[:len-1]
removeSwapLast(l, i) ==
    SubSeq([l EXCEPT ![i] = l[Len(l)]], 1, Len(l) - 1)

\* append(l.lis[:i], l.lis[i+1:]...), i 1-based
removeAt(l, i) == SubSeq(l, 1, i - 1) \o SubSeq(l, i + 1, Len(l))

removeListener(l, s) ==
    LET i == IndexOf(l, s)
    IN  IF i # 0 THEN [lis |-> removeAt(l, i), ret |-> TRUE]
        ELSE [lis |-> l, ret |-> FALSE]

\* An AddListener that does not look for the sink first.
addAlways(l, s) == [lis |-> Append(l, s), ret |-> TRUE]

addListener(l, s) ==
    IF IndexOf(l, s) # 0 THEN [lis |-> l, ret |-> FALSE]
    ELSE [lis |-> Append(l, s), ret |-> TRUE]

-----------------------------------------------------------------------------
(* Logger.Log *)

\* A threshold check that drops the messages at the threshold itself.
passesStrict(threshold, level) == threshold > level

\* `if l.lev >= level`
passes(threshold, level) == threshold >= level

\* A Log that resets the buffer before it looks at the level.
resetFirst(b, passed) == <<>>

\* `if l.lev >= level { l.buf = l.buf[:0] ...`: the buffer after the check.
resetIfPassed(b, passed) == IF passed THEN <<>> ELSE b

\* `for _, layouter := range l.layouters { layouter.layout(&l.buf, ...) }`
RECURSIVE runLayouters(_, _, _, _, _, _, _)
runLayouters(ls, b, level, msg, t, file, line) ==
    IF ls = <<>> THEN b
    ELSE runLayouters(Tail(ls), layout(Head(ls), b, level, msg, t, file, line),
                      level, msg, t, file, line)

\* A line ending that does not look at the last byte.
endLineAlways(b) == Append(b, "\n")

\* `if len(l.buf) == 0 || l.buf[len(l.buf)-1] != '\n' { append '\n' }`
endLine(b) ==
    IF Len(b) = 0 \/ b[Len(b)] # "\n" THEN Append(b, "\n") ELSE b

\* What a Write returns: all of p written and a nil error, an error, or a
\* count short of len(p).
WriteResults == {"ok", "err", "short"}

\* A write loop that runs over the sinks last to first.
fanOutReversed(l, b, res) ==
    [i \in 1 .. Len(l) |-> [lis |-> l[Len(l) + 1 - i], p |-> b, res |-> res[l[Len(l) + 1 - i]]]]

\* A write loop that stops at the first Write that does not succeed.
fanOutUntilError(l, b, res) ==
    LET bad == {i \in 1 .. Len(l) : res[l[i]] # "ok"}
        n == IF bad = {} THEN Len(l) ELSE CHOOSE i \in bad : \A j \in bad : i <= j
    IN  [i \in 1 .. n |-> [lis |-> l[i], p |-> b, res |-> res[l[i]]]]

\* `for _, lis := range l.lis { lis.Write(l.buf) }`: the writes, in order,
\* res[s] being what the Write of sink s returns; the loop drops it.
fanOut(l, b, res) == [i \in 1 .. Len(l) |-> [lis |-> l[i], p |-> b, res |-> res[l[i]]]]

\* A Lock that does not wait for the mutex to be free.
neverWait(m) == TRUE

\* `l.mu.Lock()` goes on when no goroutine holds the mutex.
canLock(m) == m = "free"

\* A Log that does not lock again after runtime.Caller.
noRelock(p) == "free"

\* `l.mu.Lock()` after runtime.Caller: the mutex is held again.
relock(p) == p

\* A Log that returns with the mutex still locked.
noUnlock(p) == p

\* `defer l.mu.Unlock()`: the mutex when Log returns.
deferredUnlock(p) == "free"

-----------------------------------------------------------------------------
(* The goroutines, the listeners and the inputs of the calls *)

Procs == {"g1", "g2"}

Listeners == {"w1", "w2", "w3"}

\* The entry points that call Log with a level of their own: the Logger
\* methods and the package-level functions of the same names, which call
\* stdLogger.Log themselves.  The f-variants differ only in how msg is
\* rendered before Log is called.
Wrappers == {"Panic", "Fatal", "Error", "Warn", "Info", "Debug"}

\* The entry points that take the level from their caller: "Log" is
\* Logger.Log called directly, "xlog.Log" the package-level Log or Logf.
LogEntries == {"Log", "xlog.Log"}

wrapperLevel(entry) ==
    CASE entry = "Panic" -> PanicLevel
      [] entry = "Fatal" -> FatalLevel
      [] entry = "Error" -> ErrorLevel
      [] entry = "Warn"  -> WarnLevel
      [] entry = "Info"  -> InfoLevel
      [] entry = "Debug" -> DebugLevel

\* time.Now()
Now == [year |-> 2017, month |-> 1, day |-> 5, hour |-> 18, minute |-> 2, second |-> 7]

\* The call stack at runtime.Caller inside Log, innermost frame first:
\* Log itself, the function that forwards to it if the entry point is not
\* Logger.Log, the code that called the entry point, and that code's own
\* caller.
LogFrame == [file |-> <<"x", "l", "o", "g">>, line |-> 267]
WrapperFrame == [file |-> <<"x", "l", "o", "g">>, line |-> 231]
UserFrame == [file |-> <<"/", "a", "/", "d">>, line |-> 72]
OuterFrame == [file |-> <<"/", "a", "/", "m">>, line |-> 9]

stackOf(entry) ==
    IF entry = "Log" THEN <<LogFrame, UserFrame, OuterFrame>>
    ELSE <<LogFrame, WrapperFrame, UserFrame, OuterFrame>>

\* runtime.Caller(skip); `if !ok { file = "???"; line = 0 }`
Caller(stack, skip) ==
    IF skip + 1 <= Len(stack) THEN stack[skip + 1]
    ELSE [file |-> <<"?", "?", "?">>, line |-> 0]

NoCall ==
    [op |-> "none", level |-> 0, listener |-> "none", pattern |-> <<>>, msg |-> <<>>,
     file |-> <<>>, line |-> 0, thr |-> 0, passed |-> FALSE, ret |-> FALSE,
     pre |-> <<>>, prog |-> <<>>, stale |-> <<>>, text |-> <<>>, wrote |-> <<>>,
     value |-> <<>>, code |-> 0, str |-> <<>>, t |-> Now, out |-> <<>>]

-----------------------------------------------------------------------------
(* The state after New(lev, lis, layout) *)

New(l, s, pattern) ==
    LET c == setLayout(pattern, <<>>, FALSE)
    IN  /\ mu = "free"
        /\ lev = l
        /\ lis = <<s>>
        /\ layouters = c.layouters
        /\ needCallerInfo = c.needCallerInfo
        /\ buf = <<>>
        /\ pc = [p \in Procs |-> "idle"]
        /\ call = [p \in Procs |-> NoCall]
        /\ status = IF c.panicked THEN "panicked" ELSE "running"
        /\ installed = pattern

-----------------------------------------------------------------------------
(* The operations *)

\* A goroutine may take a step: the process runs, and no call has just
\* returned.  Return, the step that hands a result to the caller, touches
\* nothing of the Logger and commutes with every step of the other
\* goroutines, so it is taken first: the state in which a call has returned
\* is the state the call left.
CanStep(p) ==
    /\ status = "running"
    /\ \A q \in Procs : pc[q] # "ret"

Idle(p) == CanStep(p) /\ pc[p] = "idle"

\* SetLevel, first half: `if lev != l.lev`, read without the mutex.
SetLevelCheck(p, l) ==
    /\ Idle(p)
    /\ call' = [call EXCEPT ![p] = [NoCall EXCEPT !.op = "SetLevel", !.level = l,
                                                  !.thr = lev]]
    /\ pc' = [pc EXCEPT ![p] = IF levelChanged(l, lev) THEN "SetLevel_lock" ELSE "ret"]
    /\ UNCHANGED <<mu, lev, lis, layouters, buf, needCallerInfo, status, installed>>

\* SetLevel, second half: Lock; l.lev = lev; Unlock.
SetLevelLocked(p) ==
    /\ CanStep(p)
    /\ pc[p] = "SetLevel_lock"
    /\ canLock(mu)
    /\ lev' = call[p].level
    /\ pc' = [pc EXCEPT ![p] = "ret"]
    /\ UNCHANGED <<mu, lis, layouters, buf, needCallerInfo, call, status, installed>>

\* SetLayout: Lock; defer Unlock; the loop.  A panic in the loop unwinds
\* through the deferred Unlock and ends the process.
SetLayout(p, pattern) ==
    /\ Idle(p)
    /\ canLock(mu)
    /\ LET c == setLayout(pattern, layouters, needCallerInfo)
       IN  /\ layouters' = c.layouters
           /\ needCallerInfo' = c.needCallerInfo
           /\ status' = IF c.panicked THEN "panicked" ELSE status
           /\ pc' = [pc EXCEPT ![p] = IF c.panicked THEN "panicked" ELSE "ret"]
           /\ installed' = IF c.panicked THEN installed ELSE pattern
    /\ call' = [call EXCEPT ![p] = [NoCall EXCEPT !.op = "SetLayout",
                                                  !.pattern = pattern,
                                                  !.prog = layouters]]
    /\ UNCHANGED <<mu, lev, lis, buf>>

AddListener(p, s) ==
    /\ Idle(p)
    /\ canLock(mu)
    /\ LET r == addListener(lis, s)
       IN  /\ lis' = r.lis
           /\ call' = [call EXCEPT ![p] = [NoCall EXCEPT !.op = "AddListener",
                                                         !.listener = s,
                                                         !.pre = lis,
                                                         !.ret = r.ret]]
    /\ pc' = [pc EXCEPT ![p] = "ret"]
    /\ UNCHANGED <<mu, lev, layouters, buf, needCallerInfo, status, installed>>

RemoveListener(p, s) ==
    /\ Idle(p)
    /\ canLock(mu)
    /\ LET r == removeListener(lis, s)
       IN  /\ lis' = r.lis
           /\ call' = [call EXCEPT ![p] = [NoCall EXCEPT !.op = "RemoveListener",
                                                         !.listener = s,
                                                         !.pre = lis,
                                                         !.ret = r.ret]]
    /\ pc' = [pc EXCEPT ![p] = "ret"]
    /\ UNCHANGED <<mu, lev, layouters, buf, needCallerInfo, status, installed>>

\* Where a call that ends in Log goes when Log has returned.
afterLog(entry) ==
    CASE entry = "Panic" -> "panic"
      [] entry = "Fatal" -> "exit"
      [] OTHER -> "ret"

\* Log up to the first point where it can be interleaved: Lock, the
\* threshold check, and when the message passes, the reset of the buffer
\* and, if caller info is needed, the Unlock before runtime.Caller.
LogEnter(p, entry, level, msg) ==
    /\ Idle(p)
    /\ canLock(mu)
    /\ call' = [call EXCEPT ![p] = [NoCall EXCEPT !.op = entry, !.level = level,
                                                  !.msg = msg, !.thr = lev,
                                                  !.passed = passes(lev, level)]]
    /\ buf' = resetIfPassed(buf, passes(lev, level))
    /\ IF passes(lev, level)
       THEN IF needCallerInfo
            THEN mu' = "free" /\ pc' = [pc EXCEPT ![p] = "Log_caller"]
            ELSE mu' = p /\ pc' = [pc EXCEPT ![p] = "Log_format"]
       ELSE /\ pc' = [pc EXCEPT ![p] = afterLog(entry)]
            /\ UNCHANGED mu
    /\ UNCHANGED <<lev, lis, layouters, needCallerInfo, status, installed>>

\* runtime.Caller(2), then the relock.
LogCallerInfo(p) ==
    /\ CanStep(p)
    /\ pc[p] = "Log_caller"
    /\ canLock(mu)
    /\ LET c == Caller(stackOf(call[p].op), 2)
       IN  call' = [call EXCEPT ![p].file = c.file, ![p].line = c.line]
    /\ mu' = relock(p)
    /\ pc' = [pc EXCEPT ![p] = "Log_format"]
    /\ UNCHANGED <<lev, lis, layouters, buf, needCallerInfo, status, installed>>

\* Log with the mutex held, after the check or the relock: the layouters
\* and the trailing newline.
LogFormat(p) ==
    /\ CanStep(p)
    /\ pc[p] = "Log_format"
    /\ mu = p
    /\ LET c == call[p]
           text == runLayouters(layouters, buf, c.level, c.msg, Now, c.file, c.line)
       IN  /\ buf' = endLine(text)
           /\ call' = [call EXCEPT ![p].prog = layouters,
                                   ![p].pre = lis,
                                   ![p].stale = buf,
                                   ![p].text = text]
    /\ pc' = [pc EXCEPT ![p] = "Log_write"]
    /\ UNCHANGED <<mu, lev, lis, layouters, needCallerInfo, status, installed>>

\* The end of Log, the mutex still held: the writes, then the deferred
\* Unlock.  res[s] is what the Write of sink s returns.
LogEmit(p, res) ==
    /\ CanStep(p)
    /\ pc[p] = "Log_write"
    /\ mu = p
    /\ call' = [call EXCEPT ![p].wrote = fanOut(lis, buf, res)]
    /\ mu' = deferredUnlock(p)
    /\ pc' = [pc EXCEPT ![p] = afterLog(call[p].op)]
    /\ UNCHANGED <<lev, lis, layouters, buf, needCallerInfo, status, installed>>

\* panic(s) after l.Log(PanicLevel, s): s is the string Log was given.
DoPanic(p) ==
    /\ CanStep(p)
    /\ pc[p] = "panic"
    /\ status' = "panicked"
    /\ pc' = [pc EXCEPT ![p] = "panicked"]
    /\ call' = [call EXCEPT ![p].value = call[p].msg]
    /\ UNCHANGED <<mu, lev, lis, layouters, buf, needCallerInfo, installed>>

\* os.Exit(1) after l.Log(FatalLevel, ...)
DoExit(p) ==
    /\ CanStep(p)
    /\ pc[p] = "exit"
    /\ status' = "exited"
    /\ pc' = [pc EXCEPT ![p] = "exited"]
    /\ call' = [call EXCEPT ![p].code = 1]
    /\ UNCHANGED <<mu, lev, lis, layouters, buf, needCallerInfo, installed>>

\* The call has returned to its caller.
Return(p) ==
    /\ status = "running"
    /\ pc[p] = "ret"
    /\ pc' = [pc EXCEPT ![p] = "idle"]
    /\ call' = [call EXCEPT ![p] = NoCall]
    /\ UNCHANGED <<mu, lev, lis, layouters, buf, needCallerInfo, status, installed>>

\* ParseLevel(str), a function of the package: no field of a Logger is
\* touched.
ParseLevelCall(p, str) ==
    /\ Idle(p)
    /\ LET r == ParseLevel(str)
       IN  call' = [call EXCEPT ![p] = [NoCall EXCEPT !.op = "ParseLevel", !.str = str,
                                                     !.level = r.level, !.ret = r.ok]]
    /\ pc' = [pc EXCEPT ![p] = "ret"]
    /\ UNCHANGED <<mu, lev, lis, layouters, buf, needCallerInfo, status, installed>>

\* One layouter run on an empty buffer, as the tests of the layouters run
\* it: `var buf []byte; layout.layout(&buf, DebugLevel, "", time, file, line)`.
LayouterCall(p, l, t, file, line) ==
    /\ Idle(p)
    /\ call' = [call EXCEPT ![p] =
                    [NoCall EXCEPT !.op = "layout", !.prog = <<l>>, !.level = DebugLevel,
                                   !.t = t, !.file = file, !.line = line,
                                   !.out = layout(l, <<>>, DebugLevel, <<>>, t, file, line)]]
    /\ pc' = [pc EXCEPT ![p] = "ret"]
    /\ UNCHANGED <<mu, lev, lis, layouters, buf, needCallerInfo, status, installed>>

-----------------------------------------------------------------------------
(* The next-state relation, over the inputs the calls are given *)

Entries == Wrappers \cup LogEntries

\* Ms[p] is the set of messages goroutine p logs, Rs the set of the
\* outcomes of the Writes: what each sink returns.
NextOver(Ps, SetLevels, Patterns, Ss, Es, Ls, Ms, Rs) ==
    \E p \in Ps :
        \/ \E l \in SetLevels : SetLevelCheck(p, l)
        \/ SetLevelLocked(p)
        \/ \E pattern \in Patterns : SetLayout(p, pattern)
        \/ \E s \in Ss : AddListener(p, s)
        \/ \E s \in Ss : RemoveListener(p, s)
        \/ \E entry \in Es, msg \in Ms[p] :
              \E level \in (IF entry \in LogEntries THEN Ls ELSE {wrapperLevel(entry)}) :
                  LogEnter(p, entry, level, msg)
        \/ LogCallerInfo(p)
        \/ LogFormat(p)
        \/ \E res \in Rs : LogEmit(p, res)
        \/ DoPanic(p)
        \/ DoExit(p)
        \/ Return(p)

\* "%f:%i %l", a layout that needs caller info, and "%l", one that does not
CallerLayout == <<"%", "f", ":", "%", "i", " ", "%", "l">>
PlainLayout == <<"%", "l">>

\* Every Write succeeds.
AllOk == {[s \in Listeners |-> "ok"]}

-----------------------------------------------------------------------------
(* Spec: two goroutines share the standard Logger *)

\* stdLogger = New(InfoLevel, os.Stderr, DefaultLoggerLayout)
Init == New(InfoLevel, "w1", DefaultLoggerLayout)

\* Each goroutine logs a message of its own.
MsgOf == [p \in Procs |-> IF p = "g1" THEN {<<"a">>} ELSE {<<"b">>}]

Next ==
    NextOver(Procs, {ErrorLevel, InfoLevel}, {CallerLayout}, {"w2"},
             {"Log", "Panic", "Fatal"}, {InfoLevel}, MsgOf, AllOk)

Spec == Init /\ [][Next]_vars

-----------------------------------------------------------------------------
(* LiveSpec: two goroutines, only calls that return, fair scheduling *)

\* The calls of Spec but Panic and Fatal, which end the process.
LiveNext ==
    \E p \in Procs :
        \/ \E l \in {ErrorLevel, InfoLevel} : SetLevelCheck(p, l)
        \/ SetLevelLocked(p)
        \/ SetLayout(p, CallerLayout)
        \/ AddListener(p, "w2")
        \/ RemoveListener(p, "w2")
        \/ \E msg \in MsgOf[p] : LogEnter(p, "Log", InfoLevel, msg)
        \/ LogCallerInfo(p)
        \/ LogFormat(p)
        \/ \E res \in AllOk : LogEmit(p, res)
        \/ Return(p)

\* The steps a goroutine takes inside a call it has started.
Progress(p) ==
    \/ SetLevelLocked(p)
    \/ LogCallerInfo(p)
    \/ LogFormat(p)
    \/ \E res \in AllOk : LogEmit(p, res)
    \/ Return(p)

\* A goroutine that is runnable again and again is run, and a goroutine
\* that waits in Lock gets the mutex when it is free again and again
\* (sync.Mutex hands the mutex to a waiter that has waited long); every
\* Write returns.
LiveSpec == Init /\ [][LiveNext]_vars /\ \A p \in Procs : SF_vars(Progress(p))

-----------------------------------------------------------------------------
(* LevelSpec: one goroutine, every threshold and every entry point *)

LevelNext ==
    NextOver({"g1"}, Levels, {CallerLayout, PlainLayout}, {"w1"}, Entries, Levels,
             [p \in Procs |-> {<<"a">>}], AllOk)

LevelSpec == Init /\ [][LevelNext]_vars

-----------------------------------------------------------------------------
(* SinkSpec: one goroutine, three listeners whose Writes may fail *)

SinkNext ==
    NextOver({"g1"}, {ErrorLevel, InfoLevel}, {CallerLayout, PlainLayout}, Listeners,
             {"Log", "Panic", "Fatal"}, {InfoLevel}, [p \in Procs |-> {<<"a">>}],
             [Listeners -> WriteResults])

SinkSpec == Init /\ [][SinkNext]_vars

-----------------------------------------------------------------------------
(* LayoutSpec: one goroutine, a Logger made by New with any short pattern *)

MaxLayoutLen == 3

Alphabet == {"%", "l", "f", "Q", "x", "\n"}

ShortPatterns == UNION {[1 .. n -> Alphabet] : n \in 0 .. MaxLayoutLen}

\* "!!!%L - %D -- %T---%l!!!", the layout of TestCustomLogLayout
TestLayout ==
    <<"!", "!", "!", "%", "L", " ", "-", " ", "%", "D", " ", "-", "-", " ",
      "%", "T", "-", "-", "-", "%", "l", "!", "!", "!">>

\* "test log"
TestMsg == <<"t", "e", "s", "t", " ", "l", "o", "g">>

LayoutInit ==
    \E pattern \in ShortPatterns \cup {TestLayout, DefaultLoggerLayout, CallerLayout} :
        New(InfoLevel, "w1", pattern)

LayoutNext ==
    NextOver({"g1"}, {ErrorLevel, InfoLevel},
             {<<>>, DefaultLoggerLayout, CallerLayout, PlainLayout, <<"x", "%">>}, {"w1"},
             {"Log", "Panic", "Fatal"}, {InfoLevel}, [p \in Procs |-> {TestMsg, <<>>}],
             AllOk)

LayoutSpec == LayoutInit /\ [][LayoutNext]_vars

-----------------------------------------------------------------------------
(* FuncSpec: one goroutine calls ParseLevel and the layouters one by one *)

MaxNameLen == 4

NameAlphabet == {"I", "N", "F", "O", "i", "n"}

\* The six names, the same in lower case, with a capital only, with a
\* space or a letter after them, and every short string of some letters.
ParseInputs ==
    LET names == Range(Level2Str)
        lower(n) == [i \in 1 .. Len(n) |-> LowerLetters[IndexByte(UpperLetters, n[i])]]
    IN  names
        \cup {lower(n) : n \in names}
        \cup {<<n[1]>> \o Tail(lower(n)) : n \in names}
        \cup {n \o <<" ">> : n \in names}
        \cup {n \o <<"S">> : n \in names}
        \cup UNION {[1 .. k -> NameAlphabet] : k \in 0 .. MaxNameLen}

MaxPathLen == 5

PathAlphabet == {"/", ".", "d", "g", "o"}

Paths == UNION {[1 .. k -> PathAlphabet] : k \in 0 .. MaxPathLen}

\* The fields of a valid calendar timestamp.
FieldValues ==
    [year |-> 0 .. 9999, month |-> 1 .. 12, day |-> 1 .. 31,
     hour |-> 0 .. 23, minute |-> 0 .. 59, second |-> 0 .. 59]

SingleFields == DOMAIN FieldValues

MaxLine == 1200

\* Years and minutes of one, two and four digits, the ends of the ranges
\* among them.
SampleYears == {0, 7, 2017, 9999}

SampleMinutes == {0, 2, 9, 10, 59}

Dates ==
    {[Now EXCEPT !.year = y, !.month = m, !.day = d] :
        y \in SampleYears, m \in FieldValues.month, d \in FieldValues.day}

Clocks ==
    {[Now EXCEPT !.hour = h, !.minute = m, !.second = s_] :
        h \in FieldValues.hour, m \in SampleMinutes, s_ \in FieldValues.second}

LayouterInputs ==
    {[l |-> Token("shortfile"), t |-> Now, file |-> f, line |-> 0] : f \in Paths}
    \cup {[l |-> Token("date"), t |-> t, file |-> <<>>, line |-> 0] : t \in Dates}
    \cup {[l |-> Token("time"), t |-> t, file |-> <<>>, line |-> 0] : t \in Clocks}
    \cup UNION {{[l |-> Token(k), t |-> [Now EXCEPT ![k] = v], file |-> <<>>, line |-> 0] :
                    v \in FieldValues[k]} : k \in SingleFields}
    \cup {[l |-> Token("line"), t |-> Now, file |-> <<>>, line |-> n] : n \in 0 .. MaxLine}

FuncNext ==
    \E p \in {"g1"} :
        \/ Idle(p) /\ \E str \in ParseInputs : ParseLevelCall(p, str)
        \/ Idle(p) /\ \E in \in LayouterInputs :
                          LayouterCall(p, in.l, in.t, in.file, in.line)
        \/ Return(p)

FuncSpec == Init /\ [][FuncNext]_vars

-----------------------------------------------------------------------------
(* Properties *)

\* Goroutine p's call is one that ends in Log, and Log has returned.
LogDone(p) ==
    /\ call[p].op \in Entries
    /\ pc[p] \in {"ret", "panic", "exit", "panicked", "exited"}

Returned(p, op) == pc[p] = "ret" /\ call[p].op = op

\* The sinks written by a call, in the order of the writes.
sinksOf(wrote) == [i \in DOMAIN wrote |-> wrote[i].lis]

\* C1: Log(m, msg) on a Logger whose threshold is t writes to the
\* registered sinks if and only if t >= m; when t < m no sink receives a
\* write for that call.
C1_LogWritesIffThresholdAllows ==
    \A p \in Procs :
        LogDone(p) =>
            /\ lev >= call[p].level => sinksOf(call[p].wrote) = lis
            /\ lev < call[p].level => call[p].wrote = <<>>

\* A message at the threshold itself has been written to the one sink.
C1_Witness ==
    \E p \in Procs :
        /\ LogDone(p)
        /\ call[p].op = "Log"
        /\ lev = WarnLevel
        /\ call[p].level = WarnLevel
        /\ sinksOf(call[p].wrote) = <<"w1">>

\* The line one run of the layout program c.prog formats for the call c
\* alone, from an empty buffer.
lineOf(c) ==
    endLine(runLayouters(c.prog, <<>>, c.level, c.msg, Now, c.file, c.line))

\* C2: under any interleaving of concurrent Log calls, every write
\* delivered to a sink is exactly the complete formatted line of one
\* single Log call, with no bytes formatted for another call.
C2_EveryWriteIsOneCompleteLine ==
    \A p \in Procs :
        \A i \in DOMAIN call[p].wrote : call[p].wrote[i].p = lineOf(call[p])

\* C3: Fatal on a Logger whose threshold is below FatalLevel does not
\* terminate the process and writes to no sink: the exit is gated on the
\* check that gates the emission.
C3_FatalGatedOnThreshold ==
    \A p \in Procs :
        (call[p].op = "Fatal" /\ pc[p] = "exited") =>
            (call[p].passed /\ lev >= FatalLevel)

\* C4: RemoveListener(s) returns false and leaves the sink list unchanged
\* when s is not registered; otherwise it returns true and the list is the
\* previous list with s deleted, the other sinks in the same relative
\* order.
C4_RemoveListenerKeepsOrder ==
    \A p \in Procs :
        Returned(p, "RemoveListener") =>
            LET c == call[p]
            IN  IF c.listener \in Range(c.pre)
                THEN /\ c.ret
                     /\ lis = SelectSeq(c.pre, LAMBDA x : x # c.listener)
                ELSE /\ ~c.ret
                     /\ lis = c.pre

\* The middle sink of three has been removed.
C4_Witness ==
    \E p \in Procs :
        /\ Returned(p, "RemoveListener")
        /\ call[p].ret
        /\ Len(call[p].pre) = 3
        /\ call[p].listener = call[p].pre[2]
        /\ lis = <<call[p].pre[1], call[p].pre[3]>>

NoDuplicates(l) == \A i, j \in 1 .. Len(l) : l[i] = l[j] => i = j

\* C5: AddListener(s) returns false without changing the sink list when s
\* is already registered, otherwise appends s and returns true; the sink
\* list never holds a sink twice; after AddListener(s) s is registered, so
\* that a second AddListener(s) returns false, and after RemoveListener(s)
\* it is not, so that a second RemoveListener(s) returns false.
C5_AddListenerSetSemantics ==
    /\ NoDuplicates(lis)
    /\ \A p \in Procs :
        /\ Returned(p, "AddListener") =>
              LET c == call[p]
              IN  /\ IF c.listener \in Range(c.pre)
                     THEN ~c.ret /\ lis = c.pre
                     ELSE c.ret /\ lis = c.pre \o <<c.listener>>
                  /\ c.listener \in Range(lis)
        /\ Returned(p, "RemoveListener") =>
              LET c == call[p]
              IN  /\ c.ret <=> c.listener \in Range(c.pre)
                  /\ c.listener \notin Range(lis)

\* A sink that was registered has been added again: false, list unchanged.
C5_Witness ==
    \E p \in Procs :
        /\ Returned(p, "AddListener")
        /\ ~call[p].ret
        /\ Len(call[p].pre) = 2
        /\ call[p].listener = call[p].pre[2]
        /\ lis = call[p].pre

\* The pattern text a layouter was compiled from.
sourceOf(l) ==
    CASE l.kind = "year"   -> <<"%", "y">>
      [] l.kind = "month"  -> <<"%", "M">>
      [] l.kind = "day"    -> <<"%", "d">>
      [] l.kind = "hour"   -> <<"%", "h">>
      [] l.kind = "minute" -> <<"%", "m">>
      [] l.kind = "second" -> <<"%", "s">>
      [] l.kind = "msg"    -> <<"%", "l">>
      [] l.kind = "level"  -> <<"%", "L">>
      [] l.kind = "file"   -> <<"%", "F">>
      [] l.kind = "shortfile" -> <<"%", "f">>
      [] l.kind = "line"   -> <<"%", "i">>
      [] l.kind = "date"   -> <<"%", "D">>
      [] l.kind = "time"   -> <<"%", "T">>
      [] l.kind = "placeholder" -> l.placeholder

RECURSIVE unparse(_)
unparse(ls) == IF ls = <<>> THEN <<>> ELSE sourceOf(Head(ls)) \o unparse(Tail(ls))

\* The pattern SetLayout compiles for the argument pattern.
effective(pattern) == IF pattern = <<>> THEN DefaultLoggerLayout ELSE pattern

\* C6: after SetLayout(p) the layout program is the compilation of p
\* alone, whatever program was installed before: read back unit by unit it
\* is the text of p, and it is the program SetLayout(p) gives a Logger
\* that had none; so SetLayout(p) twice leaves what SetLayout(p) once does.
C6_SetLayoutReplaces ==
    \A p \in Procs :
        Returned(p, "SetLayout") =>
            /\ unparse(layouters) = effective(call[p].pattern)
            /\ layouters = setLayout(call[p].pattern, <<>>, FALSE).layouters

\* SetLayout("%f:%i %l") has returned on a Logger that had that very
\* program installed: the second call in a row.
C6_Witness ==
    \E p \in Procs :
        /\ Returned(p, "SetLayout")
        /\ call[p].pattern = CallerLayout
        /\ call[p].prog = layouters
        /\ Len(layouters) = 5

before(l, a, b) == IndexOf(l, a) < IndexOf(l, b)

\* Every emitted message is written exactly once to every registered
\* sink, in the order of the sink list, the same final buffer each time.
C7_FanOut ==
    \A p \in Procs :
        (LogDone(p) /\ call[p].passed) =>
            /\ sinksOf(call[p].wrote) = lis
            /\ \A s \in Range(lis) :
                  Cardinality({i \in DOMAIN call[p].wrote : call[p].wrote[i].lis = s}) = 1
            /\ \A i \in DOMAIN call[p].wrote : call[p].wrote[i].p = buf

\* The sink list is in registration order: no step changes the relative
\* order of two sinks that stay registered, and a sink that becomes
\* registered comes after all those that already were.
C7_OrderKept ==
    /\ \A a, b \in Range(lis) \cap Range(lis') : before(lis, a, b) <=> before(lis', a, b)
    /\ \A a \in Range(lis) \cap Range(lis'), b \in Range(lis') \ Range(lis) :
          before(lis', a, b)

\* C7: for every message that passes the threshold, Log writes the same
\* final buffer exactly once to every sink registered at that time, in
\* registration order (the constructor's sink first, then the sinks in the
\* order of their successful AddListener calls, removals not reordering
\* the rest).
C7_WritesInRegistrationOrder ==
    /\ []C7_FanOut
    /\ [][C7_OrderKept]_vars

\* Three sinks, the constructor's removed and registered again, have each
\* received the line, the constructor's sink last.
C7_Witness ==
    \E p \in Procs :
        /\ LogDone(p)
        /\ call[p].passed
        /\ lis = <<"w2", "w3", "w1">>
        /\ sinksOf(call[p].wrote) = <<"w2", "w3", "w1">>

\* C8: the Logger captures caller file and line during Log (needCallerInfo
\* is true) if and only if the installed layout program contains at least
\* one of %F, %f, %i.
C8_CaptureIffLayoutNeedsIt ==
    status = "running" =>
        (needCallerInfo <=>
            \E i \in 1 .. Len(layouters) :
                layouters[i].kind \in {"file", "shortfile", "line"})

\* C9: SetLayout on a pattern that ends with a lone '%' does not crash: it
\* completes, the one-character key kept as literal text.
C9_LonePercentDoesNotCrash ==
    \A p \in Procs :
        (call[p].op = "SetLayout" /\ pc[p] # "idle") =>
            /\ pc[p] = "ret"
            /\ status = "running"
            /\ unparse(layouters) = effective(call[p].pattern)

\* The pattern read left to right, one character or one two-character
\* escape at a time: a recognized token gives its rendering, anything else
\* is copied.
RECURSIVE expected(_, _, _, _, _, _)
expected(pattern, level, msg, t, file, line) ==
    IF pattern = <<>> THEN <<>>
    ELSE IF pattern[1] = "%" /\ Len(pattern) >= 2
    THEN LET key == SubSeq(pattern, 1, 2)
             rest == SubSeq(pattern, 3, Len(pattern))
         IN  (IF mapLayouter(key) # Nil
              THEN layout(mapLayouter(key), <<>>, level, msg, t, file, line)
              ELSE key)
             \o expected(rest, level, msg, t, file, line)
    ELSE <<pattern[1]>> \o expected(Tail(pattern), level, msg, t, file, line)

withNewline(s) == IF s # <<>> /\ s[Len(s)] = "\n" THEN s ELSE s \o <<"\n">>

RECURSIVE escapesOf(_)
escapesOf(pattern) ==
    IF pattern = <<>> THEN <<>>
    ELSE IF pattern[1] = "%" /\ Len(pattern) >= 2
    THEN <<SubSeq(pattern, 1, 2)>> \o escapesOf(SubSeq(pattern, 3, Len(pattern)))
    ELSE escapesOf(Tail(pattern))

unknownEscapesOf(pattern) == SelectSeq(escapesOf(pattern), LAMBDA k : mapLayouter(k) = Nil)

\* The literal fragments of a program that hold a '%', in order.
RECURSIVE percentFragments(_)
percentFragments(ls) ==
    IF ls = <<>> THEN <<>>
    ELSE (IF Head(ls).kind = "placeholder" /\ "%" \in Range(Head(ls).placeholder)
          THEN <<Head(ls).placeholder>>
          ELSE <<>>)
         \o percentFragments(Tail(ls))

occursIn(k, s) == \E i \in 1 .. (Len(s) - 1) : SubSeq(s, i, i + 1) = k

\* C11: an escape '%X' whose key is not one of the 13 recognized tokens
\* ("%%" and "%Q" among them) is compiled to a literal fragment holding
\* exactly those two characters, the scan going on after it: the fragments
\* of the program that hold a '%' are the unknown escapes of the pattern,
\* one for one and in order, and each of them occurs in every emitted line.
C11_UnknownEscapeIsLiteral ==
    /\ status = "running" =>
          percentFragments(layouters) = unknownEscapesOf(effective(installed))
    /\ \A p \in Procs :
          (LogDone(p) /\ call[p].passed) =>
              \A i \in DOMAIN call[p].wrote :
                  \A k \in Range(unknownEscapesOf(effective(installed))) :
                      occursIn(k, call[p].wrote[i].p)

\* "%%l" has given the line "%%l\n": "%%" is copied, and the 'l' after it
\* is text, not the key of "%l".
C11_Witness ==
    \E p \in Procs :
        /\ LogDone(p)
        /\ installed = <<"%", "%", "l">>
        /\ layouters = <<layouterPlaceholder(<<"%", "%">>), layouterPlaceholder(<<"l">>)>>
        /\ Len(call[p].wrote) = 1
        /\ call[p].wrote[1].p = <<"%", "%", "l", "\n">>

endsWithNewline(s) == Len(s) > 0 /\ s[Len(s)] = "\n"

\* C12: every byte sequence Log writes to a sink is non-empty and ends
\* with '\n': it is the formatted text itself when that already ends with
\* '\n', and otherwise (the empty text included) the formatted text and
\* exactly one '\n' after it.
C12_EveryWriteEndsWithNewline ==
    \A p \in Procs :
        \A i \in DOMAIN call[p].wrote :
            LET w == call[p].wrote[i].p
                text == call[p].text
            IN  /\ Len(w) > 0
                /\ w[Len(w)] = "\n"
                /\ IF endsWithNewline(text) THEN w = text ELSE w = text \o <<"\n">>

\* The layout "x\n" has given the line "x\n": nothing was appended.
C12_Witness ==
    \E p \in Procs :
        /\ LogDone(p)
        /\ installed = <<"x", "\n">>
        /\ call[p].text = <<"x", "\n">>
        /\ Len(call[p].wrote) = 1
        /\ call[p].wrote[1].p = <<"x", "\n">>

\* The layout "%l" with the empty message has given the line "\n".
C12_EmptyTextCase ==
    \E p \in Procs :
        /\ LogDone(p)
        /\ call[p].text = <<>>
        /\ Len(call[p].wrote) = 1
        /\ call[p].wrote[1].p = <<"\n">>

\* C13: when the layout needs caller info, for every public logging entry
\* point (the Logger methods Log, Panic, Fatal, Error, Warn, Info, Debug,
\* their f-variants and the package-level functions of the same names) the
\* file and line rendered are those of the code that called the entry
\* point: the line written is the pattern rendered with that frame.
C13_CallerIsTheCallSite ==
    \A p \in Procs :
        (LogDone(p) /\ call[p].passed) =>
            \A i \in DOMAIN call[p].wrote :
                call[p].wrote[i].p =
                    withNewline(expected(effective(installed), call[p].level, call[p].msg,
                                         Now, UserFrame.file, UserFrame.line))

\* Goroutine p is at, or past, the panic of Panic or the os.Exit of a Fatal
\* whose message was not filtered.
Terminating(p) ==
    \/ call[p].op = "Panic" /\ pc[p] \in {"panic", "panicked"}
    \/ call[p].op = "Fatal" /\ pc[p] \in {"exit", "exited"} /\ call[p].passed

\* C14: for Panic the panic is raised, and for a Fatal that is not
\* filtered the process exits with status 1, only after the Log call for
\* that message has written to every registered sink and released the
\* mutex; the value carried by the panic is the message passed to Log.
C14_TerminatesAfterEmission ==
    \A p \in Procs :
        /\ Terminating(p) =>
              /\ call[p].passed
              /\ mu # p
              /\ sinksOf(call[p].wrote) = call[p].pre
              /\ \A i \in DOMAIN call[p].wrote : call[p].wrote[i].p = call[p].wrote[1].p
        /\ (call[p].op = "Panic" /\ pc[p] = "panicked") => call[p].value = call[p].msg
        /\ (call[p].op = "Fatal" /\ pc[p] = "exited") => call[p].code = 1

\* Panic("a") has panicked with the value "a", its line written to the
\* two registered sinks, the mutex free.
C14_Witness ==
    \E p \in Procs :
        /\ call[p].op = "Panic"
        /\ pc[p] = "panicked"
        /\ status = "panicked"
        /\ call[p].value = <<"a">>
        /\ sinksOf(call[p].wrote) = <<"w1", "w2">>
        /\ mu = "free"

\* C15: if the Write of one sink returns an error or a short count for an
\* emitted message, every sink registered after it still receives the same
\* buffer, the failed Write is not made again, and Log returns normally:
\* the failure does not reach the caller.
C15_WriteFailureIsIgnored ==
    \A p \in Procs :
        (LogDone(p) /\ call[p].passed) =>
            LET c == call[p]
            IN  /\ Len(c.wrote) = Len(c.pre)
                /\ \A i \in DOMAIN c.wrote :
                      c.wrote[i].res # "ok" =>
                          /\ \A j \in (i + 1) .. Len(c.pre) :
                                /\ j \in DOMAIN c.wrote
                                /\ c.wrote[j].lis = c.pre[j]
                                /\ c.wrote[j].p = c.wrote[i].p
                          /\ Cardinality({j \in DOMAIN c.wrote :
                                             c.wrote[j].lis = c.wrote[i].lis}) = 1
                /\ pc[p] = afterLog(c.op) \/ pc[p] \in {"panicked", "exited"}
                /\ c.op \in LogEntries => (pc[p] = "ret" /\ status = "running")

\* Log has returned after three Writes: the first returned an error, the
\* second a short count, and the third sink received the line all the same.
C15_Witness ==
    \E p \in Procs :
        /\ call[p].op = "Log"
        /\ pc[p] = "ret"
        /\ Len(call[p].pre) = 3
        /\ Len(call[p].wrote) = 3
        /\ call[p].wrote[1].res = "err"
        /\ call[p].wrote[2].res = "short"
        /\ call[p].wrote[3].res = "ok"
        /\ call[p].wrote[3].p = call[p].wrote[1].p

\* Goroutine p takes a step of a public operation of the Logger in which
\* fields of the Logger are read or written: any step but the return to
\* the caller, the panic, the exit, and the relock after runtime.Caller.
AccessStep(p) ==
    /\ pc'[p] # pc[p]
    /\ pc[p] \in {"idle", "SetLevel_lock", "Log_format", "Log_write"}
    /\ call'[p].op \in {"SetLevel", "SetLayout", "AddListener", "RemoveListener"} \cup Entries

\* C16: the mutex protects all the fields of the Logger: every read and
\* every write of the threshold, the layout program, the sink list, the
\* buffer and the caller-capture flag by a public operation is made by a
\* goroutine that holds the mutex, so never while another goroutine holds
\* it.
C16_FieldAccessHoldsMutex ==
    [][\A p \in Procs : AccessStep(p) => mu \in {"free", p}]_vars

\* Goroutine p takes a step of SetLevel: the check, or the locked write.
SetLevelStep(p) ==
    /\ pc'[p] # pc[p]
    /\ pc[p] \in {"idle", "SetLevel_lock"}
    /\ call'[p].op = "SetLevel"

\* Once SetLevel(x) has returned, no other SetLevel running, the
\* threshold is x.
C17_ThresholdSet ==
    \A p \in Procs :
        (Returned(p, "SetLevel") /\ \A q \in Procs \ {p} : call[q].op # "SetLevel") =>
            lev = call[p].level

\* A step of SetLevel(x) changes nothing but the threshold, and that only
\* to x; with x the current threshold it changes nothing and returns.
C17_Frame ==
    \A p \in Procs :
        SetLevelStep(p) =>
            /\ UNCHANGED <<lis, layouters, needCallerInfo, buf, mu, installed, status>>
            /\ lev' \in {lev, call'[p].level}
            /\ (pc[p] = "idle" /\ call'[p].level = lev) => (lev' = lev /\ pc'[p] = "ret")

\* The threshold changes in no other step, and a Log call that starts is
\* filtered against the threshold of that moment.
C17_Filter ==
    /\ lev' # lev => \E p \in Procs : SetLevelStep(p) /\ pc[p] = "SetLevel_lock"
    /\ \A p \in Procs :
          (pc[p] = "idle" /\ pc'[p] # "idle" /\ call'[p].op \in Entries) =>
              /\ call'[p].thr = lev
              /\ call'[p].passed <=> (lev >= call'[p].level)
              /\ ~call'[p].passed => pc'[p] \notin {"Log_caller", "Log_format", "Log_write"}

\* C17: SetLevel(x) replaces only the threshold: once it has returned (no
\* other SetLevel running) the threshold is x and every Log call started
\* afterwards is filtered against x, while the layout program, the sink
\* list and the caller-capture flag are unchanged; SetLevel with the
\* current value changes nothing.
C17_SetLevelReplacesOnlyThreshold ==
    /\ []C17_ThresholdSet
    /\ [][C17_Frame]_vars
    /\ [][C17_Filter]_vars

\* SetLevel(ErrorLevel) has returned on a Logger whose threshold was
\* InfoLevel: the threshold is ErrorLevel, the sinks and the program are
\* those of the standard Logger.
C17_Witness ==
    \E p \in Procs :
        /\ Returned(p, "SetLevel")
        /\ call[p].level = ErrorLevel
        /\ call[p].thr = InfoLevel
        /\ lev = ErrorLevel
        /\ lis = <<"w1">>
        /\ unparse(layouters) = DefaultLoggerLayout

\* After SetLevel(ErrorLevel), Log(InfoLevel, ...) has been filtered.
C17_FilteredAfterwards ==
    \E p \in Procs :
        /\ Returned(p, "Log")
        /\ call[p].level = InfoLevel
        /\ call[p].thr = ErrorLevel
        /\ ~call[p].passed
        /\ call[p].wrote = <<>>

\* "PANIC", "FATAL", "ERROR", "WARN", "INFO", "DEBUG"
SixNames ==
    {<<"P", "A", "N", "I", "C">>, <<"F", "A", "T", "A", "L">>, <<"E", "R", "R", "O", "R">>,
     <<"W", "A", "R", "N">>, <<"I", "N", "F", "O">>, <<"D", "E", "B", "U", "G">>}

\* C18: ParseLevel is the inverse of the level-name table on the six names
\* and total elsewhere: ParseLevel(Level2Str[l]) = (l, true) for every
\* level l, and for every string that is not exactly one of the six names
\* (other-case spellings and the empty string included) ParseLevel returns
\* (InfoLevel, false).
C18_ParseLevelInvertsLevel2Str ==
    \A p \in Procs :
        (call[p].op = "ParseLevel" /\ pc[p] # "idle") =>
            LET c == call[p]
            IN  /\ pc[p] = "ret"
                /\ status = "running"
                /\ \A l \in Levels : c.str = Level2Str[l + 1] => (c.level = l /\ c.ret)
                /\ c.str \notin SixNames => (c.level = InfoLevel /\ ~c.ret)
                /\ c.ret => Level2Str[c.level + 1] = c.str

\* ParseLevel("WARN") has returned (WarnLevel, true).
C18_Witness ==
    \E p \in Procs :
        /\ Returned(p, "ParseLevel")
        /\ call[p].str = <<"W", "A", "R", "N">>
        /\ call[p].level = WarnLevel
        /\ call[p].ret

\* ParseLevel("debug") has returned (InfoLevel, false), and so has
\* ParseLevel("").
C18_OtherCaseSpelling ==
    \E p \in Procs :
        /\ Returned(p, "ParseLevel")
        /\ call[p].str = <<"d", "e", "b", "u", "g">>
        /\ call[p].level = InfoLevel
        /\ ~call[p].ret

C18_EmptyString ==
    \E p \in Procs :
        /\ Returned(p, "ParseLevel")
        /\ call[p].str = <<>>
        /\ call[p].level = InfoLevel
        /\ ~call[p].ret

\* The part of a path after its last '/', the whole path if it has none.
afterLastSlash(path) ==
    LET slashes == {i \in 1 .. Len(path) : path[i] = "/"}
    IN  IF slashes = {} THEN path
        ELSE LET last == CHOOSE i \in slashes : \A j \in slashes : j <= i
             IN  SubSeq(path, last + 1, Len(path))

\* C19: the %f token renders the part of the caller file path after its
\* last '/', and the whole path when it contains no '/', for every path:
\* also for a path whose only '/' is its first character ("/d.go" renders
\* "d.go") and for a path that ends in '/'.
C19_ShortFileIsAfterLastSlash ==
    \A p \in Procs :
        (Returned(p, "layout") /\ call[p].prog = <<Token("shortfile")>>) =>
            call[p].out = afterLastSlash(call[p].file)

digitValue(c) ==
    CASE c = "0" -> 0 [] c = "1" -> 1 [] c = "2" -> 2 [] c = "3" -> 3 [] c = "4" -> 4
      [] c = "5" -> 5 [] c = "6" -> 6 [] c = "7" -> 7 [] c = "8" -> 8 [] c = "9" -> 9

isDecimal(s) ==
    /\ s # <<>>
    /\ \A i \in 1 .. Len(s) : s[i] \in {"0", "1", "2", "3", "4", "5", "6", "7", "8", "9"}

\* strconv.Atoi on a string of decimal digits
RECURSIVE atoi(_)
atoi(s) ==
    IF s = <<>> THEN 0
    ELSE atoi(SubSeq(s, 1, Len(s) - 1)) * 10 + digitValue(s[Len(s)])

\* The declared width of a single-field token.
fieldWidth(k) == IF k = "year" THEN 4 ELSE 2

\* C20: for every valid calendar timestamp (year 0..9999, month 1..12, day
\* 1..31, hour 0..23, minute 0..59, second 0..59) each single-field
\* formatter %y, %M, %d, %h, %m, %s appends a decimal string that parses
\* back to the field and is zero-padded to the declared width (4 digits
\* for the year, 2 for the others); %i renders a non-negative line number
\* as unpadded decimal.
C20_FieldsRoundTrip ==
    \A p \in Procs :
        Returned(p, "layout") =>
            LET c == call[p]
                k == c.prog[1].kind
            IN  /\ k \in SingleFields =>
                      /\ isDecimal(c.out)
                      /\ atoi(c.out) = c.t[k]
                      /\ Len(c.out) = fieldWidth(k)
                /\ k = "line" =>
                      /\ isDecimal(c.out)
                      /\ atoi(c.out) = c.line
                      /\ Len(c.out) = 1 \/ c.out[1] # "0"

\* %y has rendered the year 7 as "0007".
C20_Witness ==
    \E p \in Procs :
        /\ Returned(p, "layout")
        /\ call[p].prog = <<Token("year")>>
        /\ call[p].t.year = 7
        /\ call[p].out = <<"0", "0", "0", "7">>

\* %i has rendered the line 1200 as "1200", and the line 0 as "0".
C20_LineCase ==
    \E p \in Procs :
        /\ Returned(p, "layout")
        /\ call[p].prog = <<Token("line")>>
        /\ \/ call[p].line = 1200 /\ call[p].out = <<"1", "2", "0", "0">>
           \/ call[p].line = 0 /\ call[p].out = <<"0">>

\* What the token k alone renders for the timestamp t.
outputOf(k, t) == layout(Token(k), <<>>, DebugLevel, <<>>, t, <<>>, 0)

\* C21: for every timestamp the composed tokens are exact concatenations
\* of the single-field tokens: the output of %D is output(%y), "/",
\* output(%M), "/", output(%d), and the output of %T is output(%h), ":",
\* output(%m), ":", output(%s).
C21_ComposedTokensConcatenate ==
    \A p \in Procs :
        Returned(p, "layout") =>
            LET c == call[p]
                k == c.prog[1].kind
            IN  /\ k = "date" =>
                      c.out = outputOf("year", c.t) \o <<"/">> \o outputOf("month", c.t)
                              \o <<"/">> \o outputOf("day", c.t)
                /\ k = "time" =>
                      c.out = outputOf("hour", c.t) \o <<":">> \o outputOf("minute", c.t)
                              \o <<":">> \o outputOf("second", c.t)

\* %D has rendered 5 January 2017 as "2017/01/05".
C21_Witness ==
    \E p \in Procs :
        /\ Returned(p, "layout")
        /\ call[p].prog = <<Token("date")>>
        /\ call[p].t = Now
        /\ call[p].out = <<"2", "0", "1", "7", "/", "0", "1", "/", "0", "5">>

\* %T has rendered 18:02:07 as "18:02:07".
C21_TimeCase ==
    \E p \in Procs :
        /\ Returned(p, "layout")
        /\ call[p].prog = <<Token("time")>>
        /\ call[p].t = Now
        /\ call[p].out = <<"1", "8", ":", "0", "2", ":", "0", "7">>

\* The program of "%L %D %T %l": level, date, time and message, one space
\* between them.
DefaultProgram ==
    <<Token("level"), layouterPlaceholder(<<" ">>), Token("date"),
      layouterPlaceholder(<<" ">>), Token("time"), layouterPlaceholder(<<" ">>),
      Token("msg")>>

\* "[INFO] 2017/01/05 18:02:07 test log\n"
DefaultLine ==
    <<"[", "I", "N", "F", "O", "]", " ", "2", "0", "1", "7", "/", "0", "1", "/", "0", "5",
      " ", "1", "8", ":", "0", "2", ":", "0", "7", " ",
      "t", "e", "s", "t", " ", "l", "o", "g", "\n">>

\* C22: SetLayout("") (and New with an empty layout) installs exactly the
\* layout program that SetLayout("%L %D %T %l") installs, so that "test
\* log" at Info on a Logger with threshold Info gives the line
\* "[INFO] YYYY/MM/DD hh:mm:ss test log\n", one space between the fields.
C22_EmptyLayoutIsDefault ==
    /\ (status = "running" /\ installed \in {<<>>, DefaultLoggerLayout}) =>
          layouters = DefaultProgram
    /\ \A p \in Procs :
          /\ (Returned(p, "SetLayout") /\ call[p].pattern = <<>>) =>
                layouters = setLayout(DefaultLoggerLayout, call[p].prog,
                                      needCallerInfo).layouters
          /\ (LogDone(p) /\ call[p].passed /\ installed \in {<<>>, DefaultLoggerLayout}
              /\ call[p].level = InfoLevel /\ call[p].msg = TestMsg) =>
                \A i \in DOMAIN call[p].wrote : call[p].wrote[i].p = DefaultLine

\* SetLayout("") has returned on a Logger that had another program: the
\* program is now that of "%L %D %T %l".
C22_Witness ==
    \E p \in Procs :
        /\ Returned(p, "SetLayout")
        /\ call[p].pattern = <<>>
        /\ call[p].prog # DefaultProgram
        /\ call[p].prog # <<>>
        /\ layouters = DefaultProgram

\* After SetLayout(""), "test log" at Info has given the default line on a
\* Logger whose threshold is Info.
C22_DefaultLineWritten ==
    \E p \in Procs :
        /\ LogDone(p)
        /\ installed = <<>>
        /\ call[p].thr = InfoLevel
        /\ call[p].level = InfoLevel
        /\ Len(call[p].wrote) = 1
        /\ call[p].wrote[1].p = DefaultLine

\* The programs of the patterns "%L %D %T %l" and "%f:%i %l", each
\* compiled on its own.
CompletePrograms ==
    {DefaultProgram,
     <<Token("shortfile"), layouterPlaceholder(<<":">>), Token("line"),
       layouterPlaceholder(<<" ">>), Token("msg")>>}

\* C23: under any interleaving of Log with SetLayout, AddListener and
\* RemoveListener, each emitted line is formatted by running one complete
\* layout program, never a mixture of an old and a new one, and no layout
\* or sink-list change takes effect between the start of the formatting of
\* the line and its write to the last sink: the sinks of one emission are
\* the sink list of a single instant.
C23_EmissionSeesOneProgramOneSinkList ==
    \A p \in Procs :
        LET c == call[p]
        IN  /\ pc[p] = "Log_write" =>
                  /\ layouters = c.prog
                  /\ lis = c.pre
                  /\ mu = p
            /\ (pc[p] = "Log_write" \/ (LogDone(p) /\ c.passed)) =>
                  /\ c.prog \in CompletePrograms
                  /\ c.text = c.stale \o runLayouters(c.prog, <<>>, c.level, c.msg, Now,
                                                      c.file, c.line)
            /\ (LogDone(p) /\ c.passed) => sinksOf(c.wrote) = c.pre

\* A goroutine has formatted its line with the program of "%f:%i %l" and
\* is about to write it to two sinks, while the other goroutine is inside
\* Log as well, at runtime.Caller.
C23_Witness ==
    \E p, q \in Procs :
        /\ pc[p] = "Log_write"
        /\ pc[q] = "Log_caller"
        /\ Len(call[p].prog) = 5
        /\ call[p].pre = <<"w1", "w2">>

\* Goroutine p takes a step of a call that ends in Log, inside Log.
LogStep(p) ==
    /\ pc'[p] # pc[p]
    /\ pc[p] \in {"idle", "Log_caller", "Log_format", "Log_write"}
    /\ call'[p].op \in Entries

C24_Frame ==
    \A p \in Procs :
        LogStep(p) =>
            /\ UNCHANGED <<lev, layouters, lis, needCallerInfo>>
            /\ ~call'[p].passed =>
                  /\ UNCHANGED <<buf, mu>>
                  /\ call'[p].wrote = <<>>
                  /\ pc'[p] = afterLog(call'[p].op)

\* C24: a Log call that is filtered out (threshold < level) leaves the
\* whole state of the Logger unchanged, the reusable buffer included (no
\* reset, no formatting); a Log call that is emitted changes only the
\* buffer, never the threshold, the layout program, the sink list or the
\* caller-capture flag.
C24_LogFrameEffect == [][C24_Frame]_vars

\* A filtered Log(InfoLevel, ...) has returned, and the buffer still holds
\* the line of an earlier emission.
C24_Witness ==
    \E p \in Procs :
        /\ Returned(p, "Log")
        /\ ~call[p].passed
        /\ call[p].level = InfoLevel
        /\ lev = ErrorLevel
        /\ buf # <<>>
        /\ call[p].wrote = <<>>

\* Goroutine p runs the write loop of Log.
WriteStep(p) == pc[p] = "Log_write" /\ pc'[p] # "Log_write"

\* C25: under any interleaving of Log with SetLevel, a message of level m
\* is written to a sink only at a moment when the threshold t of the
\* Logger satisfies t >= m: once a SetLevel(t) with t < m has returned and
\* no later SetLevel raised it, no write of a level-m message happens, not
\* even for a Log call that had released the mutex for caller capture when
\* SetLevel ran.
C25_WriteOnlyWhenThresholdAllows ==
    [][\A p \in Procs :
          (WriteStep(p) /\ call'[p].wrote # <<>>) => lev >= call[p].level]_vars

\* C27: a PanicLevel message is never filtered: PanicLevel is ordinal 0, so
\* for every threshold among the six levels Log(PanicLevel, msg) writes to
\* all the registered sinks; Panic and Panicf always emit their message
\* before they panic, and no SetLevel value silences them.
C27_PanicLevelNeverFiltered ==
    \A p \in Procs :
        LET c == call[p]
        IN  /\ (c.op \in Entries /\ pc[p] # "idle" /\ c.level = PanicLevel) =>
                  /\ c.thr \in Levels
                  /\ c.passed
            /\ (LogDone(p) /\ c.level = PanicLevel) => sinksOf(c.wrote) = c.pre
            /\ (c.op = "Panic" /\ pc[p] \in {"panic", "panicked"}) =>
                  /\ c.level = PanicLevel
                  /\ sinksOf(c.wrote) = lis

\* With the threshold at PanicLevel, the lowest, Panic("a") has written
\* its line to the sink and panicked.
C27_Witness ==
    \E p \in Procs :
        /\ call[p].op = "Panic"
        /\ pc[p] = "panicked"
        /\ lev = PanicLevel
        /\ call[p].thr = PanicLevel
        /\ sinksOf(call[p].wrote) = <<"w1">>

\* The mutex is held by a goroutine exactly from the Lock of Log, or its
\* relock, to the deferred Unlock; a call that has returned does not hold
\* it.
C26_Balanced ==
    \A p \in Procs : mu = p <=> pc[p] \in {"Log_format", "Log_write"}

\* The mutex is taken only when it is free, and released only by the
\* goroutine that holds it.
C26_LockDiscipline ==
    /\ (mu' # mu /\ mu' # "free") => mu = "free"
    /\ (mu' # mu /\ mu # "free") => (mu' = "free" /\ pc[mu] = "Log_write" /\ pc'[mu] # "Log_write")

\* C26: under any interleaving of concurrent SetLevel, SetLayout,
\* AddListener, RemoveListener and Log calls on one Logger, with fair
\* scheduling and sinks whose Write returns, every call eventually returns
\* and leaves the mutex released: lock and unlock are balanced on every
\* path of Log (the unlock and relock around the caller capture and the
\* deferred unlock included), the mutex is never unlocked while not held
\* and never left held.
C26_EveryCallReturns ==
    /\ []C26_Balanced
    /\ [][C26_LockDiscipline]_vars
    /\ \A p \in Procs : (pc[p] # "idle") ~> (pc[p] = "idle")
    /\ (mu # "free") ~> (mu = "free")

\* Both goroutines are inside Log: one holds the mutex and is about to
\* write, the other has unlocked for runtime.Caller and will have to lock
\* again.
C26_Witness ==
    \E p, q \in Procs :
        /\ pc[p] = "Log_write"
        /\ mu = p
        /\ pc[q] = "Log_caller"

====
